---- MODULE Spec2Model ----
(***************************************************************************)
(* A model of the geecache repository: the LRU eviction cache              *)
(* (geecache/lru), the consistent-hash ring (consistenthash), the cache    *)
(* shard, the Group orchestrator, the HTTP peer pool and the call          *)
(* deduplicator (singleflight) the Group loads through.                    *)
(*                                                                         *)
(* Three specifications share the module:                                  *)
(*   SpecLRU    one lru.Cache driven by Add, Get and RemoveOldest;         *)
(*   SpecRing   one consistenthash.Map driven by Add and Get;              *)
(*   SpecGroup  one Group on one node, with concurrent callers of Get;     *)
(*   SpecWire   one peer fetch, from the client's URL to the server's     *)
(*              reply;                                                     *)
(*   SpecFleet  the nodes of main.go, one Group each, Gets in sequence;    *)
(*   SpecPool   one HTTPPool, Set statement by statement beside PickPeer.   *)
(***************************************************************************)
EXTENDS Integers, Sequences, FiniteSets, TLC

VARIABLES
    \* ---- lru.Cache driven on its own (SpecLRU)
    lru,          \* the Cache: maxBytes, nbytes, ll (front first), cache (keys of the map)
    lruPc,        \* "idle", or "spin" while Add's eviction loop runs without end
    lruLast,      \* the call that ran last, with what it returned
    lruEvicted,   \* the keys OnEvicted was called with during the last call, in order
    accessOrder,  \* keys by their most recent access (Add, or Get hit), oldest first
    addOrder,     \* keys by their most recent insertion as a new entry, oldest first
    getHits,      \* the keys a Get hit promoted since they were last added
    \* ---- consistenthash.Map driven on its own (SpecRing)
    ring,         \* the Map: hash, replicas, keys (the sorted ring), hashMap
    ringLast,     \* the call that ran last: the Map it met and what Get returned
    \* ---- one Group on one node, with concurrent callers of Get (SpecGroup)
    shard,        \* g.mainCache: cacheBytes, and lru (None until the first add)
    gPeers,       \* whether g.peers is set (RegisterPeers has run)
    pool,         \* the HTTPPool: self, basePath, peers (the ring), httpGetters
    flights,      \* g.loader's map: key -> the call in flight for it (0: none)
    calls,        \* the call records of g.loader: state, val, err
    pc,           \* where each caller stands in Get
    arg,          \* the key each caller passed to Get
    call,         \* the call record each caller holds in Do (0: none)
    picked,       \* the peer client PickPeer handed each caller
    result,       \* each caller's value and error: of the step behind it, then of Get
    obs,          \* what each caller did during its current Get
    okKeys,       \* the keys the load callback has returned a value for
    clean,        \* the callers since whose own add nobody else added to the shard
    \* ---- one peer fetch on the wire, client and server (SpecWire)
    wire,         \* the fetch: namespace, key, request path, what the server made of it
    \* ---- a fleet of nodes with one peer list, Gets one after the other (SpecFleet)
    fleet,        \* each node's mainCache of the group
    fleetLast,    \* the Get that ran last: node, key, what it returned and how
    \* ---- the pool with Set running step by step beside PickPeer (SpecPool)
    poolMu,       \* p.mu: Nil, or "Set" while Set holds it
    setPc,        \* where Set stands: its position, its argument, the next peer
    pickLast      \* the PickPeer that ran last: key, result, the pool it read

lruVars == <<lru, lruPc, lruLast, lruEvicted, accessOrder, addOrder, getHits>>
ringVars == <<ring, ringLast>>
groupVars == <<shard, gPeers, pool, flights, calls, pc, arg, call, picked,
               result, obs, okKeys, clean>>

wireVars == <<wire>>

fleetVars == <<fleet, fleetLast>>

lockVars == <<poolMu, setPc, pickLast>>

vars == <<lruVars, ringVars, groupVars, wireVars, fleetVars, lockVars>>

\* ------------------------------------------------------------------ bounds

\* The largest byte budget a cache is constructed with.
MaxBudget == 5

LruKeys == {"a", "b", "cc"}
\* A Value is anything with a Len(); byte strings of one and two bytes.
LruValues == {<<1>>, <<2, 2>>}
Budgets == (-1)..MaxBudget

\* The hash functions handed to consistenthash.New map into 0..MaxHash.
MaxHash == 3
\* Add is not called once the ring would hold more than MaxRingLen virtual nodes.
MaxRingLen == 4

RingPeers == {"A", "B"}
RingKeys == {"k"}
ReplicaChoices == {1, 2}
\* The arguments of one Add call: up to two peers, a peer twice included.
PeerLists == {<<>>} \cup {<<p>> : p \in RingPeers}
                 \cup {<<p, q>> : p \in RingPeers, q \in RingPeers}

\* The largest positive byte budget a Group is created with.
MaxCacheBytes == 4

Threads == {"t1", "t2"}
\* The keys callers pass to Get, and the budgets NewGroup is called with.
GroupKeys == {"", "Tom", "Sam"}
GroupBudgets == {-1, 0, MaxCacheBytes}
\* The slow database behind the load callback: the bytes it holds for a key.
db == [k \in {"Tom", "Sam"} |-> IF k = "Tom" THEN <<1>> ELSE <<2, 2>>]
GetterErrors == {"not exist"}
\* What a peer's server sends back when a fetch succeeds.
PeerValues == {<<7>>}

\* The longest namespace and key sent over the wire, in characters.
MaxNameLen == 2
\* The characters of namespaces and keys: a letter, the path separator, a space.
Chars == {"a", "/", " "}
\* Namespaces and keys, as non-empty sequences of characters.
Names == UNION {[1..n -> Chars] : n \in 1..MaxNameLen}
\* The namespaces NewGroup has registered on the serving node.
Registry == {<<"a">>, <<"a", "a">>}

\* ------------------------------------------------------------- sequences

Min(S) == CHOOSE x \in S : \A y \in S : x <= y

Range(s) == {s[i] : i \in DOMAIN s}

\* The place of x in s (0 when absent).
IndexOf(s, x) == IF \E i \in DOMAIN s : s[i] = x
                 THEN CHOOSE i \in DOMAIN s : s[i] = x /\ \A j \in 1..(i - 1) : s[j] # x
                 ELSE 0

RemoveAt(s, i) == SubSeq(s, 1, i - 1) \o SubSeq(s, i + 1, Len(s))

\* ------------------------------------------------------------- lru.Cache

Nil == "nil"
\* A pointer or optional value: nil, or the one thing it holds.
None == <<>>
Some(x) == <<x>>

\* lru.New
LruNew(maxBytes) ==
    [maxBytes |-> maxBytes, nbytes |-> 0, ll |-> <<>>, cache |-> {}]

\* The list element the map holds for key: its place in ll.
LruElem(c, k) == CHOOSE i \in DOMAIN c.ll : c.ll[i].key = k

\* list.MoveToFront
MoveToFront(ll, i) == <<ll[i]>> \o RemoveAt(ll, i)

\* A mutant of Cache.Get: a hit that does not promote the entry.
LruGetNoPromote(c, k) ==
    IF k \in c.cache
    THEN [c |-> c, value |-> c.ll[LruElem(c, k)].value, ok |-> TRUE]
    ELSE [c |-> c, value |-> Nil, ok |-> FALSE]

\* Cache.Get
LruGet(c, k) ==
    IF k \in c.cache
    THEN LET i == LruElem(c, k)
         IN  [c |-> [c EXCEPT !.ll = MoveToFront(c.ll, i)],
              value |-> c.ll[i].value, ok |-> TRUE]
    ELSE [c |-> c, value |-> Nil, ok |-> FALSE]

\* Cache.RemoveOldest: the new cache and the keys OnEvicted was called with.
LruRemoveOldest(c) ==
    IF c.ll = <<>>
    THEN [c |-> c, ev |-> <<>>]
    ELSE LET kv == c.ll[Len(c.ll)]
         IN  [c |-> [c EXCEPT !.ll = SubSeq(c.ll, 1, Len(c.ll) - 1),
                              !.cache = c.cache \ {kv.key},
                              !.nbytes = c.nbytes - (Len(kv.key) + Len(kv.value))],
              ev |-> <<kv.key>>]

\* A mutant of Cache.Add: a new entry is pushed but not entered in the map.
LruInsertNoMap(c, k, v) ==
    IF k \in c.cache
    THEN LET i == LruElem(c, k)
             moved == MoveToFront(c.ll, i)
         IN  [c EXCEPT !.ll = [moved EXCEPT ![1].value = v],
                       !.nbytes = c.nbytes + Len(v) - Len(c.ll[i].value)]
    ELSE [c EXCEPT !.ll = <<[key |-> k, value |-> v]>> \o c.ll,
                   !.nbytes = c.nbytes + Len(k) + Len(v)]

\* Cache.Add up to its eviction loop: replace and promote, or push at the front.
LruInsert(c, k, v) ==
    IF k \in c.cache
    THEN LET i == LruElem(c, k)
             moved == MoveToFront(c.ll, i)
         IN  [c EXCEPT !.ll = [moved EXCEPT ![1].value = v],
                       !.nbytes = c.nbytes + Len(v) - Len(c.ll[i].value)]
    ELSE [c EXCEPT !.ll = <<[key |-> k, value |-> v]>> \o c.ll,
                   !.cache = c.cache \cup {k},
                   !.nbytes = c.nbytes + Len(k) + Len(v)]

\* A mutant of the loop condition: one byte of slack.
NeedEvictSlack(c) == c.maxBytes # 0 /\ c.maxBytes + 1 < c.nbytes

\* The condition of Add's eviction loop.
NeedEvict(c) == c.maxBytes # 0 /\ c.maxBytes < c.nbytes

\* Add's eviction loop. It ends when the condition fails; when the condition
\* holds and RemoveOldest changes nothing (the list is empty), the next turn
\* meets the same state, and so does every later one: the loop never ends.
RECURSIVE EvictLoop(_, _)
EvictLoop(c, ev) ==
    IF ~NeedEvict(c)
    THEN [c |-> c, ev |-> ev, ends |-> TRUE]
    ELSE LET r == LruRemoveOldest(c)
         IN  IF r.c = c
             THEN [c |-> c, ev |-> ev, ends |-> FALSE]
             ELSE EvictLoop(r.c, ev \o r.ev)

\* Cache.Add
LruAdd(c, k, v) == EvictLoop(LruInsert(c, k, v), <<>>)

\* Cache.Len
LruLen(c) == Len(c.ll)

\* ----------------------------------------------------- consistenthash.Map

\* strconv.Itoa(i) + key
Salted(i, key) == ToString(i) \o key

\* What a hash function may be applied to.
HashInputs ==
    RingKeys \cup UNION {{Salted(i, p) : i \in 0..(r - 1), p \in RingPeers} :
                           r \in ReplicaChoices}

\* consistenthash.New with a hash function given
MapNew(replicas, fn) ==
    [hash |-> fn, replicas |-> replicas, keys |-> <<>>, hashMap |-> <<>>]

\* sort.Ints: the ring in ascending order. The i-th element is the value v
\* with fewer than i elements below it and at least i elements at or below it.
SortInts(s) ==
    [i \in 1..Len(s) |->
        CHOOSE v \in Range(s) :
            /\ Cardinality({j \in DOMAIN s : s[j] < v}) < i
            /\ i <= Cardinality({j \in DOMAIN s : s[j] <= v})]

\* The inner loop of Map.Add for one peer, from replica i on: the virtual
\* node's hash is appended to keys and mapped to the peer.
RECURSIVE AddReplicas(_, _, _)
AddReplicas(m, key, i) ==
    IF i >= m.replicas THEN m
    ELSE LET h == m.hash[Salted(i, key)]
         IN  AddReplicas([m EXCEPT !.keys = Append(m.keys, h),
                                   !.hashMap = (h :> key) @@ m.hashMap],
                         key, i + 1)

\* The outer loop of Map.Add over its arguments, in order.
RECURSIVE AddPeers(_, _)
AddPeers(m, peers) ==
    IF peers = <<>> THEN m
    ELSE AddPeers(AddReplicas(m, Head(peers), 0), Tail(peers))

\* A mutant of Map.Add: the ring is rebuilt from the new peers alone, the
\* mapping keeps the old virtual nodes.
MapAddResetsKeys(m, peers) ==
    LET added == AddPeers([m EXCEPT !.keys = <<>>], peers)
    IN  [added EXCEPT !.keys = SortInts(added.keys)]

\* Map.Add
MapAdd(m, peers) ==
    LET added == AddPeers(m, peers)
    IN  [added EXCEPT !.keys = SortInts(added.keys)]

\* A mutant of the search predicate: strictly greater.
AtOrAfterStrict(x, h) == x > h

\* The predicate Map.Get searches with.
AtOrAfter(x, h) == x >= h

\* sort.Search over [0, n): the first index (from 0) whose key satisfies the
\* predicate, n when none does, by bisection.
RECURSIVE Search(_, _, _, _)
Search(keys, h, i, j) ==
    IF i < j
    THEN LET mid == (i + j) \div 2
         IN  IF ~AtOrAfter(keys[mid + 1], h)
             THEN Search(keys, h, mid + 1, j)
             ELSE Search(keys, h, i, mid)
    ELSE i

\* Map.Get
MapGet(m, key) ==
    IF Len(m.keys) = 0 THEN ""
    ELSE LET h == m.hash[key]
             idx == Search(m.keys, h, 0, Len(m.keys))
         IN  m.hashMap[m.keys[(idx % Len(m.keys)) + 1]]

\* ------------------------------------------ SpecRing: one consistenthash.Map

RingStart ==
    /\ \E r \in ReplicaChoices, fn \in [HashInputs -> 0..MaxHash] :
           ring = MapNew(r, fn)
    /\ ringLast = [op |-> "none", key |-> Nil, peer |-> Nil, met |-> Nil, peers |-> <<>>]

RingAdd(peers) ==
    /\ Len(ring.keys) + Len(peers) * ring.replicas <= MaxRingLen
    /\ ring' = MapAdd(ring, peers)
    /\ ringLast' = [op |-> "Add", key |-> Nil, peer |-> Nil, met |-> ring, peers |-> peers]
    /\ UNCHANGED <<lruVars, groupVars, wireVars, fleetVars, lockVars>>

RingGet(key) ==
    /\ ringLast' = [op |-> "Get", key |-> key, peer |-> MapGet(ring, key), met |-> ring,
                    peers |-> <<>>]
    /\ UNCHANGED ring
    /\ UNCHANGED <<lruVars, groupVars, wireVars, fleetVars, lockVars>>

\* ----------------------------------------------------- cache (the shard)

\* cache.get: a miss while lru is nil, else lru.Get under the mutex.
ShardGet(s, k) ==
    IF s.lru = None
    THEN [shard |-> s, value |-> <<>>, ok |-> FALSE]
    ELSE LET r == LruGet(s.lru[1], k)
         IN  [shard |-> [s EXCEPT !.lru = Some(r.c)],
              value |-> IF r.ok THEN r.value ELSE <<>>, ok |-> r.ok]

\* cache.add: lru.New on first use, then lru.Add under the mutex. ends is
\* FALSE when Add's eviction loop never ends (the mutex stays held).
ShardAdd(s, k, v) ==
    LET c == IF s.lru = None THEN LruNew(s.cacheBytes) ELSE s.lru[1]
        r == LruAdd(c, k, v)
    IN  [shard |-> [s EXCEPT !.lru = Some(r.c)], ends |-> r.ends]

\* The entries of the shard, as a set of keys.
ShardKeys(s) == IF s.lru = None THEN {} ELSE s.lru[1].cache

ShardHolds(s, k, v) ==
    /\ k \in ShardKeys(s)
    /\ s.lru[1].ll[LruElem(s.lru[1], k)].value = v

\* ------------------------------------------------------------- HTTPPool

defaultBasePath == "/_geecache/"
defaultReplicas == 50

SelfAddr == "http://localhost:8001"
PoolPeers == <<"http://localhost:8001", "http://localhost:8002", "http://localhost:8003">>
\* The peer lists Set is called with.
SetLists == {<<>>, PoolPeers}

\* crc32.ChecksumIEEE of the strings the pool's ring hashes (the salted peer
\* addresses and the keys), halved: the values keep their order and stay
\* distinct, and fit a 32-bit signed integer. The ring only compares hashes.
CrcTable == <<
    <<"0http://localhost:8001", 45273112>>, <<"1http://localhost:8001", 153543288>>,
    <<"2http://localhost:8001", 362460376>>, <<"3http://localhost:8001", 504268472>>,
    <<"4http://localhost:8001", 753015192>>, <<"5http://localhost:8001", 662055928>>,
    <<"6http://localhost:8001", 1003126104>>, <<"7http://localhost:8001", 811487032>>,
    <<"8http://localhost:8001", 1578320664>>, <<"9http://localhost:8001", 1434939768>>,
    <<"10http://localhost:8001", 595864266>>, <<"11http://localhost:8001", 672143530>>,
    <<"12http://localhost:8001", 883707402>>, <<"13http://localhost:8001", 1060666474>>,
    <<"14http://localhost:8001", 232055626>>, <<"15http://localhost:8001", 104911146>>,
    <<"16http://localhost:8001", 452757386>>, <<"17http://localhost:8001", 292074986>>,
    <<"18http://localhost:8001", 2133178826>>, <<"19http://localhost:8001", 1957792682>>,
    <<"20http://localhost:8001", 418821716>>, <<"21http://localhost:8001", 325223476>>,
    <<"22http://localhost:8001", 266261140>>, <<"23http://localhost:8001", 72016116>>,
    <<"24http://localhost:8001", 916881364>>, <<"25http://localhost:8001", 1026706868>>,
    <<"26http://localhost:8001", 562961172>>, <<"27http://localhost:8001", 706357620>>,
    <<"28http://localhost:8001", 1146561876>>, <<"29http://localhost:8001", 1338185524>>,
    <<"30http://localhost:8001", 1431257918>>, <<"31http://localhost:8001", 1591439710>>,
    <<"32http://localhost:8001", 1114056702>>, <<"33http://localhost:8001", 1240667550>>,
    <<"34http://localhost:8001", 2065664702>>, <<"35http://localhost:8001", 1888205022>>,
    <<"36http://localhost:8001", 1815604862>>, <<"37http://localhost:8001", 1738791966>>,
    <<"38http://localhost:8001", 166645822>>, <<"39http://localhost:8001", 41607774>>,
    <<"40http://localhost:8001", 1846775657>>, <<"41http://localhost:8001", 1703394569>>,
    <<"42http://localhost:8001", 2033970089>>, <<"43http://localhost:8001", 1924127177>>,
    <<"44http://localhost:8001", 1078150889>>, <<"45http://localhost:8001", 1272411273>>,
    <<"46http://localhost:8001", 1466638889>>, <<"47http://localhost:8001", 1560219721>>,
    <<"48http://localhost:8001", 850533481>>, <<"49http://localhost:8001", 958803465>>,
    <<"0http://localhost:8002", 1312192709>>, <<"1http://localhost:8002", 1168263845>>,
    <<"2http://localhost:8002", 1495145477>>, <<"3http://localhost:8002", 1384787557>>,
    <<"4http://localhost:8002", 1617342789>>, <<"5http://localhost:8002", 1811055397>>,
    <<"6http://localhost:8002", 2001655173>>, <<"7http://localhost:8002", 2094720997>>,
    <<"8http://localhost:8002", 311946181>>, <<"9http://localhost:8002", 419682725>>,
    <<"10http://localhost:8002", 1862304279>>, <<"11http://localhost:8002", 1687466103>>,
    <<"12http://localhost:8002", 2015946455>>, <<"13http://localhost:8002", 1941755063>>,
    <<"14http://localhost:8002", 1095781271>>, <<"15http://localhost:8002", 1254390263>>,
    <<"16http://localhost:8002", 1450717015>>, <<"17http://localhost:8002", 1575755063>>,
    <<"18http://localhost:8002", 866193687>>, <<"19http://localhost:8002", 943006583>>,
    <<"20http://localhost:8002", 1416765065>>, <<"21http://localhost:8002", 1608920297>>,
    <<"22http://localhost:8002", 1130003017>>, <<"23http://localhost:8002", 1221478441>>,
    <<"24http://localhost:8002", 2049103625>>, <<"25http://localhost:8002", 1907811689>>,
    <<"26http://localhost:8002", 1829417929>>, <<"27http://localhost:8002", 1721663913>>,
    <<"28http://localhost:8002", 148082057>>, <<"29http://localhost:8002", 55033833>>,
    <<"30http://localhost:8002", 432794595>>, <<"31http://localhost:8002", 308271491>>,
    <<"32http://localhost:8002", 249794339>>, <<"33http://localhost:8002", 91733315>>,
    <<"34http://localhost:8002", 932913763>>, <<"35http://localhost:8002", 1007620099>>,
    <<"36http://localhost:8002", 548619939>>, <<"37http://localhost:8002", 724006083>>,
    <<"38http://localhost:8002", 1164605667>>, <<"39http://localhost:8002", 1325288067>>,
    <<"40http://localhost:8002", 580331444>>, <<"41http://localhost:8002", 688068052>>,
    <<"42http://localhost:8002", 901727092>>, <<"43http://localhost:8002", 1043034388>>,
    <<"44http://localhost:8002", 214429236>>, <<"45http://localhost:8002", 122936404>>,
    <<"46http://localhost:8002", 468683508>>, <<"47http://localhost:8002", 276543636>>,
    <<"48http://localhost:8002", 2117514420>>, <<"49http://localhost:8002", 1973585620>>,
    <<"0http://localhost:8003", 1974853774>>, <<"1http://localhost:8003", 2116145902>>,
    <<"2http://localhost:8003", 1654490190>>, <<"3http://localhost:8003", 1762244142>>,
    <<"4http://localhost:8003", 1541744910>>, <<"5http://localhost:8003", 1349589870>>,
    <<"6http://localhost:8003", 1288523214>>, <<"7http://localhost:8003", 1197047726>>,
    <<"8http://localhost:8003", 689206158>>, <<"9http://localhost:8003", 578830830>>,
    <<"10http://localhost:8003", 1417878108>>, <<"11http://localhost:8003", 1595353148>>,
    <<"12http://localhost:8003", 1135312540>>, <<"13http://localhost:8003", 1212108028>>,
    <<"14http://localhost:8003", 2060702684>>, <<"15http://localhost:8003", 1900536252>>,
    <<"16http://localhost:8003", 1845212956>>, <<"17http://localhost:8003", 1718584700>>,
    <<"18http://localhost:8003", 136481116>>, <<"19http://localhost:8003", 62307132>>,
    <<"20http://localhost:8003", 1878099650>>, <<"21http://localhost:8003", 1684386978>>,
    <<"22http://localhost:8003", 2027545090>>, <<"23http://localhost:8003", 1934479458>>,
    <<"24http://localhost:8003", 1101090626>>, <<"25http://localhost:8003", 1245019426>>,
    <<"26http://localhost:8003", 1451830146>>, <<"27http://localhost:8003", 1562188258>>,
    <<"28http://localhost:8003", 860886466>>, <<"29http://localhost:8003", 952379298>>,
    <<"30http://localhost:8003", 575173544>>, <<"31http://localhost:8003", 702300616>>,
    <<"32http://localhost:8003", 895489896>>, <<"33http://localhost:8003", 1056187656>>,
    <<"34http://localhost:8003", 202947112>>, <<"35http://localhost:8003", 126650440>>,
    <<"36http://localhost:8003", 456187624>>, <<"37http://localhost:8003", 279243912>>,
    <<"38http://localhost:8003", 2129256616>>, <<"39http://localhost:8003", 1971180232>>,
    <<"40http://localhost:8003", 420790271>>, <<"41http://localhost:8003", 310414751>>,
    <<"42http://localhost:8003", 238869311>>, <<"43http://localhost:8003", 94955871>>,
    <<"44http://localhost:8003", 927233663>>, <<"45http://localhost:8003", 1020281887>>,
    <<"46http://localhost:8003", 543953599>>, <<"47http://localhost:8003", 737681631>>,
    <<"48http://localhost:8003", 1169501439>>, <<"49http://localhost:8003", 1310793375>>,
    <<"", 0>>, <<"Tom", 583604985>>,
    <<"Sam", 1865353084>>, <<"Jack", 69477235>>
>>

Crc32 ==
    [x \in {e[1] : e \in Range(CrcTable)} |->
        (CHOOSE e \in Range(CrcTable) : e[1] = x)[2]]

\* The ring Set builds for a peer list: consistenthash.New(defaultReplicas, nil)
\* and Add(peers...).
PoolRings == [ps \in SetLists |-> MapAdd(MapNew(defaultReplicas, Crc32), ps)]

\* NewHTTPPool: no ring and no clients until Set.
NewHTTPPool(self) ==
    [self |-> self, basePath |-> defaultBasePath, peers |-> None, httpGetters |-> <<>>]

\* HTTPPool.Set: the ring and the clients are replaced together, under p.mu.
\* peers holds the list the ring was built from (the ring is PoolRings of it),
\* httpGetters the baseURL of each client.
PoolSetTo(p, ps) ==
    [p EXCEPT !.peers = Some(ps),
              !.httpGetters = [a \in Range(ps) |-> a \o p.basePath]]

\* HTTPPool.PickPeer, under p.mu. Before any Set p.peers is nil and Get on it
\* dereferences nil: the caller panics.
PickPeer(p, k) ==
    IF p.peers = None
    THEN [panics |-> TRUE, ok |-> FALSE, getter |-> Nil]
    ELSE LET owner == MapGet(PoolRings[p.peers[1]], k)
         IN  IF owner # "" /\ owner # p.self
             THEN [panics |-> FALSE, ok |-> TRUE,
                   getter |-> IF owner \in DOMAIN p.httpGetters
                              THEN p.httpGetters[owner] ELSE Nil]
             ELSE [panics |-> FALSE, ok |-> FALSE, getter |-> Nil]

\* httpGetter.Get: the body on status 200, else one of its three errors.
PeerOutcomes ==
    {[bytes |-> b, err |-> Nil] : b \in PeerValues}
    \cup {[bytes |-> <<>>, err |-> e] :
            e \in {"transport error", "server returned: 500", "reading response body"}}

\* Getter.Get: bytes, or an error.
GetterOutcomes(k) ==
    {[bytes |-> db[k], err |-> Nil]}
    \cup {[bytes |-> <<>>, err |-> e] : e \in GetterErrors}

\* ------------------------------------------------ the wire: one peer fetch

\* url.QueryEscape, character by character: a letter stays, a space becomes
\* "+", the separator becomes the escape "%2F" (one token of the path).
QueryEscape(s) ==
    [i \in DOMAIN s |-> IF s[i] = "/" THEN "%2F"
                        ELSE IF s[i] = " " THEN "+" ELSE s[i]]

\* The path of the URL httpGetter.Get builds, after the host: the base path,
\* the escaped group and the escaped key, one after the other ("%v%v%v").
ClientPath(group, key) ==
    <<defaultBasePath>> \o QueryEscape(group) \o QueryEscape(key)

\* r.URL.Path as net/http hands it to the handler: the escapes of the request
\* path decoded; a "+" in a path is a plus sign and stays.
PathUnescape(ts) ==
    [i \in DOMAIN ts |-> IF ts[i] = "%2F" THEN "/" ELSE ts[i]]

\* strings.HasPrefix(path, p.basePath)
HasBasePath(path) == Len(path) >= 1 /\ path[1] = defaultBasePath

\* strings.SplitN(s, "/", 2): s alone when it has no separator, else the part
\* before the first separator and the whole rest after it.
SplitN2(s) ==
    IF \A i \in DOMAIN s : s[i] # "/" THEN <<s>>
    ELSE LET i == Min({j \in DOMAIN s : s[j] = "/"})
         IN  <<SubSeq(s, 1, i - 1), SubSeq(s, i + 1, Len(s))>>

\* group.Get(key) on the serving node: the input error for the empty key, else
\* the bytes the node has for the key (here the key's own characters).
ServerGet(key) ==
    IF key = <<>> THEN [val |-> <<>>, err |-> "key is required"]
    ELSE [val |-> key, err |-> Nil]

\* HTTPPool.ServeHTTP past its prefix check: the status and body for a path.
Serve(path) ==
    LET parts == SplitN2(SubSeq(path, 2, Len(path)))
    IN  IF Len(parts) # 2
        THEN [status |-> 400, body |-> <<>>, parts |-> parts]
        ELSE IF parts[1] \notin Registry
        THEN [status |-> 404, body |-> <<>>, parts |-> parts]
        ELSE IF ServerGet(parts[2]).err # Nil
        THEN [status |-> 500, body |-> <<>>, parts |-> parts]
        ELSE [status |-> 200, body |-> ServerGet(parts[2]).val, parts |-> parts]

\* A fetch about to be made for a namespace and a key.
WireStart ==
    \E g \in Names, k \in Names :
        wire = [stage |-> "new", group |-> g, key |-> k, path |-> <<>>,
                parts |-> <<>>, status |-> 0, body |-> <<>>,
                bytes |-> <<>>, err |-> Nil]

\* httpGetter.Get up to http.Get: the URL is built and the request sent.
WireRequest ==
    /\ wire.stage = "new"
    /\ wire' = [wire EXCEPT !.stage = "sent",
                            !.path = ClientPath(wire.group, wire.key)]
    /\ UNCHANGED <<lruVars, ringVars, groupVars, fleetVars, lockVars>>

\* HTTPPool.ServeHTTP: a path outside the prefix panics; otherwise the path is
\* split, the group looked up, its Get called and the reply written.
WireServe ==
    /\ wire.stage = "sent"
    /\ LET path == PathUnescape(wire.path)
       IN  IF ~HasBasePath(path)
           THEN wire' = [wire EXCEPT !.stage = "panic"]
           ELSE LET r == Serve(path)
                IN  wire' = [wire EXCEPT !.stage = "served", !.parts = r.parts,
                                       !.status = r.status, !.body = r.body]
    /\ UNCHANGED <<lruVars, ringVars, groupVars, fleetVars, lockVars>>

\* httpGetter.Get after http.Get: an error for a status other than 200, else
\* the body.
WireReply ==
    /\ wire.stage = "served"
    /\ wire' = [wire EXCEPT !.stage = "done",
                            !.bytes = IF wire.status = 200 THEN wire.body ELSE <<>>,
                            !.err = IF wire.status = 200 THEN Nil
                                    ELSE "server returned"]
    /\ UNCHANGED <<lruVars, ringVars, groupVars, fleetVars, lockVars>>

\* ---------------------------------------- the pool, statement by statement

PoolLockStart ==
    /\ poolMu = Nil
    /\ setPc = [at |-> "idle", ps |-> <<>>, i |-> 1]
    /\ pickLast = [op |-> "none", key |-> Nil, panics |-> FALSE, ok |-> FALSE,
                   getter |-> Nil, saw |-> NewHTTPPool(SelfAddr)]

\* A mutant of Set: p.mu is not taken.
SetLockMissing(ps) ==
    /\ setPc.at = "idle"
    /\ setPc' = [at |-> "locked", ps |-> ps, i |-> 1]
    /\ UNCHANGED <<poolMu, pool, pickLast>>

\* HTTPPool.Set: p.mu.Lock()
SetLock(ps) ==
    /\ setPc.at = "idle"
    /\ poolMu = Nil
    /\ poolMu' = "Set"
    /\ setPc' = [at |-> "locked", ps |-> ps, i |-> 1]
    /\ UNCHANGED <<pool, pickLast>>

\* p.peers = consistenthash.New(defaultReplicas, nil): an empty ring
SetNewRing ==
    /\ setPc.at = "locked"
    /\ pool' = [pool EXCEPT !.peers = Some(<<>>)]
    /\ setPc' = [setPc EXCEPT !.at = "ring"]
    /\ UNCHANGED <<poolMu, pickLast>>

\* p.peers.Add(peers...)
SetAdd ==
    /\ setPc.at = "ring"
    /\ pool' = [pool EXCEPT !.peers = Some(setPc.ps)]
    /\ setPc' = [setPc EXCEPT !.at = "added"]
    /\ UNCHANGED <<poolMu, pickLast>>

\* p.httpGetters = make(map[string]*httpGetter, len(peers))
SetMake ==
    /\ setPc.at = "added"
    /\ pool' = [pool EXCEPT !.httpGetters = <<>>]
    /\ setPc' = [setPc EXCEPT !.at = "made"]
    /\ UNCHANGED <<poolMu, pickLast>>

\* One turn of the loop: p.httpGetters[peer] = &httpGetter{peer + p.basePath}
SetInsert ==
    /\ setPc.at = "made"
    /\ setPc.i <= Len(setPc.ps)
    /\ LET peer == setPc.ps[setPc.i]
       IN  pool' = [pool EXCEPT !.httpGetters =
                       (peer :> (peer \o pool.basePath)) @@ pool.httpGetters]
    /\ setPc' = [setPc EXCEPT !.i = @ + 1]
    /\ UNCHANGED <<poolMu, pickLast>>

\* Set returns: the deferred p.mu.Unlock()
SetUnlock ==
    /\ setPc.at = "made"
    /\ setPc.i > Len(setPc.ps)
    /\ poolMu' = Nil
    /\ setPc' = [at |-> "idle", ps |-> <<>>, i |-> 1]
    /\ UNCHANGED <<pool, pickLast>>

\* A caller's PickPeer(k), from Lock to the deferred Unlock.
PoolPick(k) ==
    /\ poolMu = Nil
    /\ LET r == PickPeer(pool, k)
       IN  pickLast' = [op |-> "PickPeer", key |-> k, panics |-> r.panics,
                        ok |-> r.ok, getter |-> r.getter, saw |-> pool]
    /\ UNCHANGED <<poolMu, setPc, pool>>

\* What the Set actions and PoolPick leave alone.
PoolRest ==
    /\ UNCHANGED <<shard, gPeers, flights, calls, pc, arg, call, picked, result,
                   obs, okKeys, clean>>
    /\ UNCHANGED <<lruVars, ringVars, wireVars, fleetVars>>

\* ------------------------------------------------- a fleet of three nodes

\* The group main.go creates on every node, and how names are spelled on the
\* wire.
GroupName == "scores"
Spell ==
    [x \in {"scores", "Tom", "Sam"} |->
        IF x = "scores" THEN <<"s", "c", "o", "r", "e", "s">>
        ELSE IF x = "Tom" THEN <<"T", "o", "m">> ELSE <<"S", "a", "m">>]
FleetKeys == {"Tom", "Sam"}

\* startCacheServer on node n: NewHTTPPool(n), Set(addrs...), RegisterPeers.
NodePool(n) == PoolSetTo(NewHTTPPool(n), PoolPeers)

\* Group.Get(k) on node n, with the fleet's shards fl: a hit; or load, which
\* asks the peer PickPeer names - the request goes through httpGetter.Get and
\* the peer's ServeHTTP, which calls Get on that node - and on any failure, or
\* without a peer, calls the getter and adds its bytes to n's mainCache.
RECURSIVE NodeGet(_, _, _)
NodeGet(fl, n, k) ==
    LET r == ShardGet(fl[n], k)
        missed == [fl EXCEPT ![n] = r.shard]
        pk == PickPeer(NodePool(n), k)
        local(f) ==
            IF k \in DOMAIN db
            THEN [fleet |-> [f EXCEPT ![n] = ShardAdd(f[n], k, db[k]).shard],
                  val |-> db[k], err |-> Nil, via |-> "callback"]
            ELSE [fleet |-> f, val |-> <<>>, err |-> "not exist", via |-> "callback"]
    IN  IF k = ""
        THEN [fleet |-> fl, val |-> <<>>, err |-> "key is required", via |-> "none"]
        ELSE IF r.ok
        THEN [fleet |-> missed, val |-> r.value, err |-> Nil, via |-> "hit"]
        ELSE IF ~pk.ok THEN local(missed)
        ELSE LET peer == CHOOSE a \in Range(PoolPeers) :
                             a \o defaultBasePath = pk.getter
                 path == PathUnescape(ClientPath(Spell[GroupName], Spell[k]))
                 parts == SplitN2(SubSeq(path, 2, Len(path)))
                 asked == IF Len(parts) = 2 /\ parts[1] = Spell[GroupName]
                          THEN {x \in FleetKeys : Spell[x] = parts[2]} ELSE {}
             IN  IF asked = {} THEN local(missed)
                 ELSE LET reply == NodeGet(missed, peer, CHOOSE x \in asked : TRUE)
                      IN  IF reply.err # Nil THEN local(reply.fleet)
                          ELSE [fleet |-> reply.fleet, val |-> reply.val,
                                err |-> Nil, via |-> "peer"]

FleetStart ==
    /\ \E b \in {0, MaxCacheBytes} :
          fleet = [n \in Range(PoolPeers) |-> [cacheBytes |-> b, lru |-> None]]
    /\ fleetLast = [node |-> Nil, key |-> Nil, val |-> <<>>, err |-> Nil, via |-> "none"]

\* A client's Get(k) at node n.
FleetGet(n, k) ==
    /\ LET g == NodeGet(fleet, n, k)
       IN  /\ fleet' = g.fleet
           /\ fleetLast' = [node |-> n, key |-> k, val |-> g.val, err |-> g.err,
                            via |-> g.via]
    /\ UNCHANGED <<lruVars, ringVars, groupVars, wireVars, lockVars>>

\* ---------------------------------------------- singleflight (g.loader)

CallIds == 1..Cardinality(Threads)
FreeCall == [state |-> "free", val |-> <<>>, err |-> Nil, ninv |-> 0, out |-> None]

\* A record nobody holds and the map does not name is garbage.
Collect(cs, held, fl) ==
    [id \in CallIds |->
        IF (\E t \in Threads : held[t] = id) \/ (\E k \in DOMAIN fl : fl[k] = id)
        THEN cs[id] ELSE FreeCall]

NewCallId == CHOOSE id \in CallIds :
                 /\ calls[id].state = "free"
                 /\ \A j \in CallIds : calls[j].state = "free" => id <= j

\* ------------------------------------------------------------------ Group

\* What a caller has done in its current Get: its role in Do, whether
\* mainCache had the key, its peer fetches and what they brought, its callback
\* invocations and what the last returned, whether it added to mainCache; and
\* how this Get follows the caller's previous one: "ok" right after a Get of
\* the same key that the callback resolved with prevVal (nobody else having
\* added to the shard since), "err" after one the callback failed.
ObsNew(after, prevVal) ==
    [role |-> "none", hit |-> FALSE, fetches |-> 0, fetchOk |-> FALSE,
     fetched |-> <<>>, cbs |-> 0, cbOut |-> None, added |-> FALSE,
     after |-> after, prevVal |-> prevVal]

\* How a Get of k by t follows t's previous Get.
After(t, k) ==
    IF pc[t] = "done" /\ arg[t] = k /\ obs[t].cbOut # None
    THEN IF obs[t].cbOut[1].err # Nil THEN "err"
         ELSE IF result[t].err = Nil /\ clean[t] THEN "ok" ELSE "none"
    ELSE "none"

\* A mutant of the shard's locking: getLocally holds the mutex while the
\* callback runs.
ShardMuHeldInCallback == \E t \in Threads : pc[t] \in {"spin", "local"}

\* The shard's mutex is held for good by a caller whose add never ends.
ShardMuHeld == \E t \in Threads : pc[t] = "spin"

\* What load returns from what Do returned: the value when err is nil, else
\* its named results, whose value is the zero ByteView.
LoadResult(v, e) ==
    IF e = Nil THEN [val |-> v, err |-> Nil] ELSE [val |-> <<>>, err |-> e]

GroupStart ==
    /\ \E b \in GroupBudgets : shard = [cacheBytes |-> b, lru |-> None]
    /\ gPeers = FALSE
    /\ pool = NewHTTPPool(SelfAddr)
    /\ flights = [k \in GroupKeys |-> 0]
    /\ calls = [id \in CallIds |-> FreeCall]
    /\ pc = [t \in Threads |-> "idle"]
    /\ arg = [t \in Threads |-> ""]
    /\ call = [t \in Threads |-> 0]
    /\ picked = [t \in Threads |-> Nil]
    /\ result = [t \in Threads |-> [val |-> <<>>, err |-> Nil]]
    /\ obs = [t \in Threads |-> ObsNew("none", <<>>)]
    /\ okKeys = {}
    /\ clean = [t \in Threads |-> FALSE]

\* Group.RegisterPeers (a second call panics before it assigns).
RegisterPeers ==
    /\ ~gPeers
    /\ gPeers' = TRUE
    /\ UNCHANGED <<shard, pool, flights, calls, pc, arg, call, picked, result,
                   obs, okKeys, clean>>
    /\ UNCHANGED <<lruVars, ringVars, wireVars, fleetVars, lockVars>>

\* HTTPPool.Set
Set(ps) ==
    /\ pool' = PoolSetTo(pool, ps)
    /\ UNCHANGED <<shard, gPeers, flights, calls, pc, arg, call, picked, result,
                   obs, okKeys, clean>>
    /\ UNCHANGED <<lruVars, ringVars, wireVars, fleetVars, lockVars>>

\* A mutant of Group.Get: no check of the key.
GetNoKeyCheck(t, k) ==
    /\ pc[t] \in {"idle", "done"}
    /\ ~ShardMuHeld
    /\ LET o == ObsNew(After(t, k),
                       IF After(t, k) = "ok" THEN result[t].val ELSE <<>>)
           r == ShardGet(shard, k)
       IN  /\ shard' = r.shard
           /\ pc' = [pc EXCEPT ![t] = IF r.ok THEN "done" ELSE "load"]
           /\ result' = [result EXCEPT ![t] = [val |-> r.value, err |-> Nil]]
           /\ obs' = [obs EXCEPT ![t] = [o EXCEPT !.hit = r.ok]]
    /\ arg' = [arg EXCEPT ![t] = k]
    /\ call' = [call EXCEPT ![t] = 0]
    /\ calls' = Collect(calls, call', flights)
    /\ picked' = [picked EXCEPT ![t] = Nil]
    /\ UNCHANGED <<gPeers, pool, flights, okKeys, clean>>
    /\ UNCHANGED <<lruVars, ringVars, wireVars, fleetVars, lockVars>>

\* Group.Get up to its call of load: the empty key is refused, a hit in
\* mainCache is returned, a miss goes on to load. The caller's previous Get is
\* behind it: the record it held in Do is dropped.
Get(t, k) ==
    /\ pc[t] \in {"idle", "done"}
    /\ k # "" => ~ShardMuHeld
    /\ LET o == ObsNew(After(t, k),
                       IF After(t, k) = "ok" THEN result[t].val ELSE <<>>)
           r == ShardGet(shard, k)
       IN  IF k = ""
           THEN /\ result' = [result EXCEPT ![t] =
                                 [val |-> <<>>, err |-> "key is required"]]
                /\ pc' = [pc EXCEPT ![t] = "done"]
                /\ obs' = [obs EXCEPT ![t] = o]
                /\ UNCHANGED shard
           ELSE /\ shard' = r.shard
                /\ pc' = [pc EXCEPT ![t] = IF r.ok THEN "done" ELSE "load"]
                /\ result' = [result EXCEPT ![t] = [val |-> r.value, err |-> Nil]]
                /\ obs' = [obs EXCEPT ![t] = [o EXCEPT !.hit = r.ok]]
    /\ arg' = [arg EXCEPT ![t] = k]
    /\ call' = [call EXCEPT ![t] = 0]
    /\ calls' = Collect(calls, call', flights)
    /\ picked' = [picked EXCEPT ![t] = Nil]
    /\ UNCHANGED <<gPeers, pool, flights, okKeys, clean>>
    /\ UNCHANGED <<lruVars, ringVars, wireVars, fleetVars, lockVars>>

\* A mutant of Do's entry: every caller registers a call of its own.
DoEnterAlone(t) ==
    /\ LET id == NewCallId
       IN  /\ calls' = [calls EXCEPT ![id] = [FreeCall EXCEPT !.state = "run"]]
           /\ flights' = [flights EXCEPT ![arg[t]] = id]
           /\ call' = [call EXCEPT ![t] = id]
    /\ obs' = [obs EXCEPT ![t].role = "owner"]
    /\ pc' = [pc EXCEPT ![t] = "fn"]

\* singleflight.Group.Do, under its mutex: a caller that finds a call in
\* flight for the key joins it; otherwise it registers one and will run fn.
DoEnter(t) ==
    IF flights[arg[t]] # 0
    THEN /\ call' = [call EXCEPT ![t] = flights[arg[t]]]
         /\ obs' = [obs EXCEPT ![t].role = "waiter"]
         /\ pc' = [pc EXCEPT ![t] = "wait"]
         /\ UNCHANGED <<calls, flights>>
    ELSE LET id == NewCallId
         IN  /\ calls' = [calls EXCEPT ![id] = [FreeCall EXCEPT !.state = "run"]]
             /\ flights' = [flights EXCEPT ![arg[t]] = id]
             /\ call' = [call EXCEPT ![t] = id]
             /\ obs' = [obs EXCEPT ![t].role = "owner"]
             /\ pc' = [pc EXCEPT ![t] = "fn"]

\* A mutant of Group.load: a loader of its own for every call, so no call is
\* ever found in flight.
LoadAlone(t) ==
    /\ pc[t] = "load"
    /\ DoEnterAlone(t)
    /\ UNCHANGED <<shard, gPeers, pool, arg, picked, result, okKeys, clean>>
    /\ UNCHANGED <<lruVars, ringVars, wireVars, fleetVars, lockVars>>

\* Group.load: the call of g.loader.Do with the key.
Load(t) ==
    /\ pc[t] = "load"
    /\ DoEnter(t)
    /\ UNCHANGED <<shard, gPeers, pool, arg, picked, result, okKeys, clean>>
    /\ UNCHANGED <<lruVars, ringVars, wireVars, fleetVars, lockVars>>

\* The function load hands to Do, up to its choice between peer and callback.
Producer(t) ==
    /\ pc[t] = "fn"
    /\ calls' = [calls EXCEPT ![call[t]].ninv = @ + 1]
    /\ IF ~gPeers
       THEN /\ pc' = [pc EXCEPT ![t] = "local"]
            /\ UNCHANGED picked
       ELSE LET p == PickPeer(pool, arg[t])
            IN  /\ pc' = [pc EXCEPT ![t] = IF p.panics THEN "panic"
                                           ELSE IF p.ok THEN "fetch" ELSE "local"]
                /\ picked' = [picked EXCEPT ![t] = p.getter]
    /\ UNCHANGED <<shard, gPeers, pool, flights, arg, call, result, obs, okKeys, clean>>
    /\ UNCHANGED <<lruVars, ringVars, wireVars, fleetVars, lockVars>>

\* The caller's producer returns (v, e) to Do.
FnReturns(t, v, e) ==
    /\ result' = [result EXCEPT ![t] = [val |-> v, err |-> e]]
    /\ calls' = [calls EXCEPT ![call[t]].out = Some([val |-> v, err |-> e])]
    /\ pc' = [pc EXCEPT ![t] = "fnret"]

\* A mutant of load: the error of a failed fetch is returned, no fallback.
FetchNoFallback(t) ==
    /\ pc[t] = "fetch"
    /\ IF picked[t] = Nil
       THEN /\ pc' = [pc EXCEPT ![t] = "panic"]
            /\ UNCHANGED <<result, calls, obs>>
       ELSE \E out \in PeerOutcomes :
              /\ FnReturns(t, out.bytes, out.err)
              /\ obs' = [obs EXCEPT ![t].fetches = @ + 1,
                                    ![t].fetchOk = (out.err = Nil),
                                    ![t].fetched = out.bytes]
    /\ UNCHANGED <<shard, gPeers, pool, flights, arg, call, picked, okKeys, clean>>
    /\ UNCHANGED <<lruVars, ringVars, wireVars, fleetVars, lockVars>>

\* A mutant of load: the value a peer sent is added to mainCache as well.
FetchPopulates(t) ==
    /\ pc[t] = "fetch"
    /\ ~ShardMuHeld
    /\ IF picked[t] = Nil
       THEN /\ pc' = [pc EXCEPT ![t] = "panic"]
            /\ UNCHANGED <<result, calls, obs, shard>>
       ELSE \E out \in PeerOutcomes :
              IF out.err = Nil
              THEN /\ FnReturns(t, out.bytes, Nil)
                   /\ obs' = [obs EXCEPT ![t].fetches = @ + 1, ![t].fetchOk = TRUE,
                                         ![t].fetched = out.bytes]
                   /\ shard' = ShardAdd(shard, arg[t], out.bytes).shard
              ELSE /\ pc' = [pc EXCEPT ![t] = "local"]
                   /\ obs' = [obs EXCEPT ![t].fetches = @ + 1]
                   /\ UNCHANGED <<result, calls, shard>>
    /\ UNCHANGED <<gPeers, pool, flights, arg, call, picked, okKeys, clean>>
    /\ UNCHANGED <<lruVars, ringVars, wireVars, fleetVars, lockVars>>

\* Group.getFromPeer and the branch of load around it: the fetched bytes are
\* returned as they are; a failed fetch is logged and the callback is next.
\* http.Get is called on the default client, which sets no timeout: when the
\* peer accepts the request and never answers, the call does not return and
\* the caller stays in it ("hung").
Fetch(t) ==
    /\ pc[t] = "fetch"
    /\ IF picked[t] = Nil
       THEN /\ pc' = [pc EXCEPT ![t] = "panic"]
            /\ UNCHANGED <<result, calls, obs>>
       ELSE \/ \E out \in PeerOutcomes :
                 IF out.err = Nil
                 THEN /\ FnReturns(t, out.bytes, Nil)
                      /\ obs' = [obs EXCEPT ![t].fetches = @ + 1, ![t].fetchOk = TRUE,
                                            ![t].fetched = out.bytes]
                 ELSE /\ pc' = [pc EXCEPT ![t] = "local"]
                      /\ obs' = [obs EXCEPT ![t].fetches = @ + 1]
                      /\ UNCHANGED <<result, calls>>
            \/ /\ pc' = [pc EXCEPT ![t] = "hung"]
               /\ obs' = [obs EXCEPT ![t].fetches = @ + 1]
               /\ UNCHANGED <<result, calls>>
    /\ UNCHANGED <<shard, gPeers, pool, flights, arg, call, picked, okKeys, clean>>
    /\ UNCHANGED <<lruVars, ringVars, wireVars, fleetVars, lockVars>>

\* A mutant of getLocally: populateCache runs before the error is looked at.
CallGetterCachesErr(t) ==
    /\ pc[t] = "local"
    /\ \E out \in GetterOutcomes(arg[t]) :
          /\ obs' = [obs EXCEPT ![t].cbs = @ + 1,
                                ![t].cbOut = Some([val |-> out.bytes, err |-> out.err])]
          /\ result' = [result EXCEPT ![t] = [val |-> out.bytes, err |-> Nil]]
          /\ pc' = [pc EXCEPT ![t] = "populate"]
          /\ okKeys' = IF out.err = Nil THEN okKeys \cup {arg[t]} ELSE okKeys
          /\ UNCHANGED calls
    /\ UNCHANGED <<shard, gPeers, pool, flights, arg, call, picked, clean>>
    /\ UNCHANGED <<lruVars, ringVars, wireVars, fleetVars, lockVars>>

\* Group.getLocally up to populateCache: the callback is invoked; its error is
\* returned as it is, its bytes are cloned.
CallGetter(t) ==
    /\ pc[t] = "local"
    /\ \E out \in GetterOutcomes(arg[t]) :
          /\ obs' = [obs EXCEPT ![t].cbs = @ + 1,
                                ![t].cbOut = Some([val |-> out.bytes, err |-> out.err])]
          /\ IF out.err # Nil
             THEN /\ FnReturns(t, <<>>, out.err)
                  /\ UNCHANGED okKeys
             ELSE /\ result' = [result EXCEPT ![t] = [val |-> out.bytes, err |-> Nil]]
                  /\ pc' = [pc EXCEPT ![t] = "populate"]
                  /\ okKeys' = okKeys \cup {arg[t]}
                  /\ UNCHANGED calls
    /\ UNCHANGED <<shard, gPeers, pool, flights, arg, call, picked, clean>>
    /\ UNCHANGED <<lruVars, ringVars, wireVars, fleetVars, lockVars>>

\* Group.populateCache and the return of getLocally: the value is added to
\* mainCache under its mutex, then returned.
Populate(t) ==
    /\ pc[t] = "populate"
    /\ ~ShardMuHeld
    /\ LET r == ShardAdd(shard, arg[t], result[t].val)
       IN  /\ shard' = r.shard
           /\ IF r.ends
              THEN /\ FnReturns(t, result[t].val, Nil)
                   /\ obs' = [obs EXCEPT ![t].added = TRUE]
                   /\ clean' = [u \in Threads |-> u = t]
              ELSE /\ pc' = [pc EXCEPT ![t] = "spin"]
                   /\ UNCHANGED <<result, calls, obs, clean>>
    /\ UNCHANGED <<gPeers, pool, flights, arg, call, picked, okKeys>>
    /\ UNCHANGED <<lruVars, ringVars, wireVars, fleetVars, lockVars>>

\* A mutant of Do: the error fn returned is not stored in the call.
DoDoneDropsErr(t) ==
    /\ pc[t] = "fnret"
    /\ calls' = [calls EXCEPT ![call[t]].state = "done",
                              ![call[t]].val = result[t].val]
    /\ pc' = [pc EXCEPT ![t] = "forget"]
    /\ UNCHANGED <<shard, gPeers, pool, flights, arg, call, picked, result, obs,
                   okKeys, clean>>
    /\ UNCHANGED <<lruVars, ringVars, wireVars, fleetVars, lockVars>>

\* Do after fn has returned: the result is stored in the call and the
\* waiters are released.
DoDone(t) ==
    /\ pc[t] = "fnret"
    /\ calls' = [calls EXCEPT ![call[t]].state = "done",
                              ![call[t]].val = result[t].val,
                              ![call[t]].err = result[t].err]
    /\ pc' = [pc EXCEPT ![t] = "forget"]
    /\ UNCHANGED <<shard, gPeers, pool, flights, arg, call, picked, result, obs,
                   okKeys, clean>>
    /\ UNCHANGED <<lruVars, ringVars, wireVars, fleetVars, lockVars>>

\* Do deregisters the key and returns the call's result; load returns.
DoForget(t) ==
    /\ pc[t] = "forget"
    /\ flights' = [flights EXCEPT ![arg[t]] = 0]
    /\ result' = [result EXCEPT ![t] = LoadResult(calls[call[t]].val, calls[call[t]].err)]
    /\ pc' = [pc EXCEPT ![t] = "done"]
    /\ UNCHANGED <<shard, gPeers, pool, calls, arg, call, picked, obs, okKeys, clean>>
    /\ UNCHANGED <<lruVars, ringVars, wireVars, fleetVars, lockVars>>

\* A caller that joined a call waits for it, returns its result; load returns.
DoWait(t) ==
    /\ pc[t] = "wait"
    /\ calls[call[t]].state = "done"
    /\ result' = [result EXCEPT ![t] = LoadResult(calls[call[t]].val, calls[call[t]].err)]
    /\ pc' = [pc EXCEPT ![t] = "done"]
    /\ UNCHANGED <<shard, gPeers, pool, flights, calls, arg, call, picked, obs,
                   okKeys, clean>>
    /\ UNCHANGED <<lruVars, ringVars, wireVars, fleetVars, lockVars>>

\* ------------------------------------------------- SpecLRU: one lru.Cache

\* k becomes the most recently accessed key.
Touch(order, k) == SelectSeq(order, LAMBDA x : x # k) \o <<k>>

LruStart ==
    /\ \E b \in Budgets : lru = LruNew(b)
    /\ lruPc = "idle"
    /\ lruLast = [op |-> "none", key |-> Nil, ok |-> FALSE, value |-> Nil]
    /\ lruEvicted = <<>>
    /\ accessOrder = <<>>
    /\ addOrder = <<>>
    /\ getHits = {}

CacheAdd(k, v) ==
    /\ lruPc = "idle"
    /\ LET r == LruAdd(lru, k, v)
       IN  /\ lru' = r.c
           /\ lruPc' = IF r.ends THEN "idle" ELSE "spin"
           /\ lruEvicted' = r.ev
    /\ lruLast' = [op |-> "Add", key |-> k, ok |-> FALSE, value |-> v]
    /\ accessOrder' = Touch(accessOrder, k)
    /\ addOrder' = IF k \in lru.cache THEN addOrder ELSE Touch(addOrder, k)
    /\ getHits' = getHits \ {k}
    /\ UNCHANGED <<ringVars, groupVars, wireVars, fleetVars, lockVars>>

CacheGet(k) ==
    /\ lruPc = "idle"
    /\ LET r == LruGet(lru, k)
       IN  /\ lru' = r.c
           /\ lruLast' = [op |-> "Get", key |-> k, ok |-> r.ok, value |-> r.value]
           /\ accessOrder' = IF r.ok THEN Touch(accessOrder, k) ELSE accessOrder
           /\ getHits' = IF r.ok THEN getHits \cup {k} ELSE getHits
    /\ lruEvicted' = <<>>
    /\ UNCHANGED <<lruPc, addOrder>>
    /\ UNCHANGED <<ringVars, groupVars, wireVars, fleetVars, lockVars>>

CacheRemoveOldest ==
    /\ lruPc = "idle"
    /\ LET r == LruRemoveOldest(lru)
       IN  /\ lru' = r.c
           /\ lruEvicted' = r.ev
    /\ lruLast' = [op |-> "RemoveOldest", key |-> Nil, ok |-> FALSE, value |-> Nil]
    /\ UNCHANGED <<lruPc, accessOrder, addOrder, getHits>>
    /\ UNCHANGED <<ringVars, groupVars, wireVars, fleetVars, lockVars>>

\* --------------------------------------------------------- specifications

\* The parts a specification does not drive stay as constructed.
LruUnused ==
    /\ lru = LruNew(0)
    /\ lruPc = "idle"
    /\ lruLast = [op |-> "none", key |-> Nil, ok |-> FALSE, value |-> Nil]
    /\ lruEvicted = <<>>
    /\ accessOrder = <<>>
    /\ addOrder = <<>>
    /\ getHits = {}

RingUnused ==
    /\ ring = MapNew(1, [x \in HashInputs |-> 0])
    /\ ringLast = [op |-> "none", key |-> Nil, peer |-> Nil, met |-> Nil, peers |-> <<>>]

GroupUnused ==
    /\ shard = [cacheBytes |-> 0, lru |-> None]
    /\ gPeers = FALSE
    /\ pool = NewHTTPPool(SelfAddr)
    /\ flights = [k \in GroupKeys |-> 0]
    /\ calls = [id \in CallIds |-> FreeCall]
    /\ pc = [t \in Threads |-> "idle"]
    /\ arg = [t \in Threads |-> ""]
    /\ call = [t \in Threads |-> 0]
    /\ picked = [t \in Threads |-> Nil]
    /\ result = [t \in Threads |-> [val |-> <<>>, err |-> Nil]]
    /\ obs = [t \in Threads |-> ObsNew("none", <<>>)]
    /\ okKeys = {}
    /\ clean = [t \in Threads |-> FALSE]

WireUnused ==
    wire = [stage |-> "new", group |-> <<>>, key |-> <<>>, path |-> <<>>,
            parts |-> <<>>, status |-> 0, body |-> <<>>, bytes |-> <<>>, err |-> Nil]

LockUnused == PoolLockStart

FleetUnused ==
    /\ fleet = [n \in Range(PoolPeers) |-> [cacheBytes |-> 0, lru |-> None]]
    /\ fleetLast = [node |-> Nil, key |-> Nil, val |-> <<>>, err |-> Nil, via |-> "none"]

InitLRU == LruStart /\ RingUnused /\ GroupUnused /\ WireUnused /\ FleetUnused /\ LockUnused

NextLRU ==
    \/ \E k \in LruKeys, v \in LruValues : CacheAdd(k, v)
    \/ \E k \in LruKeys : CacheGet(k)
    \/ CacheRemoveOldest

SpecLRU == InitLRU /\ [][NextLRU]_vars

InitRing == RingStart /\ LruUnused /\ GroupUnused /\ WireUnused /\ FleetUnused /\ LockUnused

NextRing ==
    \/ \E peers \in PeerLists : RingAdd(peers)
    \/ \E key \in RingKeys : RingGet(key)

SpecRing == InitRing /\ [][NextRing]_vars

InitGroup == GroupStart /\ LruUnused /\ RingUnused /\ WireUnused /\ FleetUnused /\ LockUnused

NextGroup ==
    \/ RegisterPeers
    \/ \E ps \in SetLists : Set(ps)
    \/ \E t \in Threads, k \in GroupKeys : Get(t, k)
    \/ \E t \in Threads : Load(t)
    \/ \E t \in Threads : Producer(t)
    \/ \E t \in Threads : Fetch(t)
    \/ \E t \in Threads : CallGetter(t)
    \/ \E t \in Threads : Populate(t)
    \/ \E t \in Threads : DoDone(t)
    \/ \E t \in Threads : DoForget(t)
    \/ \E t \in Threads : DoWait(t)

SpecGroup == InitGroup /\ [][NextGroup]_vars

InitWire == WireStart /\ LruUnused /\ RingUnused /\ GroupUnused /\ FleetUnused /\ LockUnused

NextWire ==
    \/ WireRequest
    \/ WireServe
    \/ WireReply

SpecWire == InitWire /\ [][NextWire]_vars

InitFleet == FleetStart /\ LruUnused /\ RingUnused /\ GroupUnused /\ WireUnused /\ LockUnused

NextFleet == \E n \in Range(PoolPeers), k \in FleetKeys : FleetGet(n, k)

SpecFleet == InitFleet /\ [][NextFleet]_vars

InitPool ==
    PoolLockStart /\ GroupUnused /\ LruUnused /\ RingUnused /\ WireUnused /\ FleetUnused

NextPool ==
    \/ \E ps \in SetLists : SetLock(ps) /\ PoolRest
    \/ SetNewRing /\ PoolRest
    \/ SetAdd /\ PoolRest
    \/ SetMake /\ PoolRest
    \/ SetInsert /\ PoolRest
    \/ SetUnlock /\ PoolRest
    \/ \E k \in GroupKeys : PoolPick(k) /\ PoolRest

SpecPool == InitPool /\ [][NextPool]_vars

\* The owner the ring's contract names for key: nobody on an empty ring, else
\* the peer that owns the smallest virtual-node hash at or after hash(key), or
\* the smallest of all when there is none.
RingOwner(m, key) ==
    LET nodes == DOMAIN m.hashMap
        after == {v \in nodes : v >= m.hash[key]}
    IN  IF nodes = {} THEN ""
        ELSE m.hashMap[Min(IF after = {} THEN nodes ELSE after)]

\* C10: Get(key) returns empty when no peer is registered, and otherwise the
\* peer owning the smallest virtual-node hash >= hash(key), or the peer owning
\* the smallest virtual-node hash of all when none is; Get leaves the ring as
\* it met it, so the same key resolves to the same peer until the next Add.
C10_GetReturnsOwner ==
    ringLast.op = "Get" =>
        /\ ring = ringLast.met
        /\ ringLast.peer = RingOwner(ring, ringLast.key)

\* Virtual nodes at three distinct hashes, the key's hash strictly between the
\* two smallest, which belong to different peers: Get resolves to the peer at
\* the middle one.
C10_Witness ==
    /\ ringLast.op = "Get"
    /\ Cardinality(DOMAIN ring.hashMap) = 3
    /\ \E lo, mid, hi \in DOMAIN ring.hashMap :
           /\ lo < ring.hash[ringLast.key]
           /\ ring.hash[ringLast.key] < mid
           /\ mid < hi
           /\ ring.hashMap[lo] # ring.hashMap[mid]
           /\ ringLast.peer = ring.hashMap[mid]

\* The hash of the virtual node that owns key on a non-empty ring.
OwnerNode(m, key) ==
    LET nodes == DOMAIN m.hashMap
        after == {v \in nodes : v >= m.hash[key]}
    IN  Min(IF after = {} THEN nodes ELSE after)

\* The positions of the ring from h on to v, both included, in ring order.
Arc(h, v) ==
    IF h <= v THEN h..v ELSE {x \in 0..MaxHash : x >= h \/ x <= v}

\* The hashes of the virtual nodes an Add of peers inserts.
NewNodes(m, peers) ==
    {m.hash[Salted(i, peers[n])] : i \in 0..(m.replicas - 1), n \in DOMAIN peers}

\* C11: after an Add to a non-empty ring, a key whose owner changed has one of
\* the newly inserted virtual nodes on the ring from the key's hash to the
\* virtual node that owned it before (a new node at that node's own hash takes
\* its place), and its new owner is one of the peers just added; every other
\* key keeps its owner.
C11_OwnerChangesOnlyBehindNewNode ==
    (ringLast.op = "Add" /\ Len(ringLast.met.keys) > 0) =>
        \A key \in RingKeys :
            MapGet(ring, key) # MapGet(ringLast.met, key) =>
                /\ \E n \in NewNodes(ring, ringLast.peers) :
                       n \in Arc(ring.hash[key], OwnerNode(ringLast.met, key))
                /\ MapGet(ring, key) \in Range(ringLast.peers)

\* An Add of another peer to a ring without collisions put a virtual node
\* strictly between the key's hash and its owner's node: the key moved to the
\* new peer.
C11_Witness ==
    /\ ringLast.op = "Add" /\ Len(ringLast.met.keys) > 0
    /\ Cardinality(DOMAIN ring.hashMap) = Len(ring.keys)
    /\ \E key \in RingKeys :
          /\ MapGet(ring, key) # MapGet(ringLast.met, key)
          /\ MapGet(ring, key) \in Range(ringLast.peers)
          /\ ring.hash[key] < OwnerNode(ring, key)
          /\ OwnerNode(ring, key) < OwnerNode(ringLast.met, key)

\* ---------------------------------------------- claims about lru.Cache

\* A call of the cache has completed (Add has left its loop).
LruCallDone == lruPc = "idle" /\ lruLast.op # "none"

LruKeysFrontFirst == [i \in DOMAIN lru.ll |-> lru.ll[i].key]

\* C1, as stated: for every nonzero maximum, after each completed Add, Get or
\* RemoveOldest the tracked size nbytes is at most maxBytes.
C1_SizeBoundNonzero ==
    (LruCallDone /\ lru.maxBytes # 0) => lru.nbytes <= lru.maxBytes

\* C1, amended: for every positive maximum, after each completed Add, Get or
\* RemoveOldest the tracked size nbytes is at most maxBytes.
C1_SizeBoundPositive ==
    (LruCallDone /\ lru.maxBytes > 0) => lru.nbytes <= lru.maxBytes

\* An Add that replaced the value of an existing key (not the one inserted
\* last) by a longer one had to evict another entry to get back to a positive
\* budget.
C1_Witness ==
    /\ LruCallDone /\ lruLast.op = "Add" /\ lru.maxBytes > 0
    /\ lruLast.key \in Range(addOrder) /\ addOrder[Len(addOrder)] # lruLast.key
    /\ Len(lruEvicted) = 1 /\ lruEvicted[1] # lruLast.key
    /\ lru.cache = {lruLast.key}
    /\ lru.nbytes <= lru.maxBytes

\* C2: every entry an Add evicts is, when it is removed, the entry whose most
\* recent access (an Add of its key or a Get hit on it) is the oldest among
\* the entries then present.
C2_EvictsLeastRecent ==
    lruLast.op = "Add" =>
        \A i \in DOMAIN lruEvicted :
            \A k \in lru.cache \cup {lruEvicted[j] : j \in (i + 1)..Len(lruEvicted)} :
                IndexOf(accessOrder, lruEvicted[i]) < IndexOf(accessOrder, k)

\* add a, add b, Get a, add cc under a budget of two entries: b is evicted
\* although a was inserted before it, and a and cc remain.
C2_Witness ==
    /\ lruLast.op = "Add" /\ lruLast.key = "cc"
    /\ "a" \in getHits
    /\ lruEvicted = <<"b">>
    /\ LruKeysFrontFirst = <<"cc", "a">>
    /\ IndexOf(addOrder, "a") < IndexOf(addOrder, "b")

\* C19: Add returns whatever maxBytes is, zero, smaller than one entry or
\* negative; its loop evicts each entry at most once, so no more entries than
\* the list held.
C19_AddTerminates ==
    /\ lruPc # "spin"
    /\ lruLast.op = "Add" =>
          Cardinality(Range(lruEvicted)) = Len(lruEvicted)

\* ------------------------------------------------ claims about the Group

Done(t) == pc[t] = "done"

\* The caller's load is executing: it is in fn, between Do registering its call
\* and fn returning.
Loading(t) == pc[t] \in {"fn", "fetch", "hung", "local", "populate", "spin"}

\* The callback returned bytes to t in this Get, without error.
CallbackOk(t) == obs[t].cbOut # None /\ obs[t].cbOut[1].err = Nil

\* The callback failed in t's current Get.
CallbackErr(t) == obs[t].cbOut # None /\ obs[t].cbOut[1].err # Nil

\* t's peer fetch failed in this Get.
FetchFailed(t) == obs[t].fetches >= 1 /\ ~obs[t].fetchOk

\* The budget never makes the shard drop an entry of key k and value v that
\* was just added: there is no budget, or the entry alone is within it.
BudgetAdmits(k, v) ==
    shard.cacheBytes = 0 \/ shard.cacheBytes >= Len(k) + Len(v)

\* C3: concurrent callers of Do with one key are in one call; the callers of a
\* call get what its one producer invocation returned, value and error alike;
\* the producer of a call is invoked exactly once, by the caller that
\* registered it, and a caller that joined invoked no producer (no peer fetch,
\* no callback) of its own.
C3_OneInvocationSharedResult ==
    /\ \A t \in Threads, u \in Threads :
         (/\ arg[t] = arg[u]
          /\ call[t] # 0 /\ calls[call[t]].state = "run"
          /\ call[u] # 0 /\ calls[call[u]].state = "run") => call[t] = call[u]
    /\ \A id \in CallIds :
         calls[id].state = "done" => calls[id].ninv = 1 /\ calls[id].out # None
    /\ \A t \in Threads :
         (Done(t) /\ obs[t].role # "none") =>
            /\ calls[call[t]].ninv = 1
            /\ calls[call[t]].out # None
            /\ result[t] = LoadResult(calls[call[t]].out[1].val,
                                      calls[call[t]].out[1].err)
            /\ obs[t].role = "waiter" => obs[t].cbs = 0 /\ obs[t].fetches = 0

\* Two concurrent callers shared one call whose producer failed: both have
\* returned its error, the joiner without invoking anything.
C3_Witness ==
    /\ Done("t1") /\ Done("t2")
    /\ call["t1"] = call["t2"] /\ call["t1"] # 0
    /\ obs["t1"].role = "owner" /\ obs["t2"].role = "waiter"
    /\ calls[call["t1"]].ninv = 1
    /\ result["t1"] = result["t2"] /\ result["t1"].err # Nil
    /\ obs["t2"].cbs = 0

\* C4: at no time are two loads for the same key executing in the Group.
C4_OneLoadPerKey ==
    \A t \in Threads, u \in Threads :
        (t # u /\ Loading(t) /\ Loading(u)) => arg[t] # arg[u]

\* One caller's load is in the callback while the other caller of the same
\* key waits for it.
C4_Witness ==
    /\ pc["t1"] = "local" /\ pc["t2"] = "wait"
    /\ arg["t1"] = arg["t2"]
    /\ call["t1"] = call["t2"]

\* What a Get that loaded the key itself, no peer having sent it, has done when
\* it returns: one callback invocation, whose bytes it returns.
LoadedByCallback(t) ==
    /\ obs[t].cbs = 1
    /\ CallbackOk(t) => result[t] = [val |-> obs[t].cbOut[1].val, err |-> Nil]

\* What a Get right after one that returned the callback's v has done when it
\* returns: no callback invocation, v returned from the shard.
ServedFromShard(t) ==
    /\ obs[t].hit
    /\ obs[t].cbs = 0
    /\ result[t] = [val |-> obs[t].prevVal, err |-> Nil]

\* C5 as stated, for any budget and whatever the peers do: the first Get of a
\* key invokes the callback once and returns its value, and the Get right
\* after it returns the value without invoking the callback.
C5_RoundTripAnyBudget ==
    \A t \in Threads :
        Done(t) =>
            /\ obs[t].role = "owner" => LoadedByCallback(t)
            /\ obs[t].after = "ok" => ServedFromShard(t)

\* C5: a Get that loads the key itself while no peer sends it invokes the
\* callback once and returns its value v; when the budget is zero or at least
\* len(key)+len(v), the Get right after it returns v without invoking the
\* callback.
C5_RoundTrip ==
    \A t \in Threads :
        Done(t) =>
            /\ (obs[t].role = "owner" /\ ~obs[t].fetchOk) => LoadedByCallback(t)
            /\ (obs[t].after = "ok" /\ BudgetAdmits(arg[t], obs[t].prevVal))
                  => ServedFromShard(t)

\* Under a positive budget, the Get after a load by the callback was served
\* the same value from the shard.
C5_Witness ==
    \E t \in Threads :
        /\ Done(t) /\ obs[t].after = "ok"
        /\ shard.cacheBytes = MaxCacheBytes
        /\ obs[t].hit /\ obs[t].cbs = 0
        /\ result[t].val = obs[t].prevVal /\ result[t].val = db[arg[t]]

\* What a Get whose peer fetch failed has done when it returns: one fetch, one
\* callback invocation, the callback's bytes returned and added to the shard.
FellBack(t) ==
    /\ obs[t].fetches = 1
    /\ obs[t].cbs = 1
    /\ CallbackOk(t) =>
         /\ result[t] = [val |-> obs[t].cbOut[1].val, err |-> Nil]
         /\ obs[t].added

\* t added the callback's bytes after a failed fetch and nobody has added to
\* the shard since.
JustFellBack(t) ==
    /\ pc[t] \in {"fnret", "forget", "done"}
    /\ FetchFailed(t) /\ obs[t].added /\ clean[t]

\* C6 as stated: after a failed peer fetch, Get returns the callback's value,
\* the callback was invoked exactly once, the peer was not asked again, and the
\* value is in the local shard.
C6_FallbackStored ==
    \A t \in Threads :
        /\ (Done(t) /\ FetchFailed(t)) => FellBack(t)
        /\ JustFellBack(t) => ShardHolds(shard, arg[t], obs[t].cbOut[1].val)

\* C6: after a failed peer fetch, Get returns the callback's value, the
\* callback was invoked exactly once, the peer was not asked again, and the
\* value was added to the local shard, which holds it when the budget is zero
\* or at least len(key)+len(value).
C6_Fallback ==
    \A t \in Threads :
        /\ (Done(t) /\ FetchFailed(t)) => FellBack(t)
        /\ (JustFellBack(t) /\ BudgetAdmits(arg[t], obs[t].cbOut[1].val))
              => ShardHolds(shard, arg[t], obs[t].cbOut[1].val)

\* A Get whose one peer fetch failed returned the callback's value, which the
\* shard holds.
C6_Witness ==
    \E t \in Threads :
        /\ Done(t) /\ FetchFailed(t)
        /\ obs[t].fetches = 1 /\ obs[t].cbs = 1
        /\ result[t] = [val |-> db[arg[t]], err |-> Nil]
        /\ ShardHolds(shard, arg[t], db[arg[t]])

\* t takes a step of Get with the empty key.
GetEmptyStep(t) ==
    /\ pc[t] \in {"idle", "done"}
    /\ arg'[t] = ""
    /\ <<pc[t], arg[t], result[t], obs[t], call[t]>>
         # <<pc'[t], arg'[t], result'[t], obs'[t], call'[t]>>

\* C7: in every state, Get("") returns the input error at once, and leaves the
\* shard, the calls in flight, the pool, the registration and every other
\* caller as they were; no fetch or callback is made.
C7_EmptyKeyRejected ==
    [][\A t \in Threads :
         GetEmptyStep(t) =>
            /\ pc'[t] = "done"
            /\ result'[t] = [val |-> <<>>, err |-> "key is required"]
            /\ obs'[t].fetches = 0 /\ obs'[t].cbs = 0 /\ ~obs'[t].hit
            /\ UNCHANGED <<shard, flights, pool, gPeers, okKeys, clean>>
            /\ \A id \in CallIds : calls'[id] \in {calls[id], FreeCall}
            /\ \A u \in Threads \ {t} :
                 UNCHANGED <<pc[u], arg[u], result[u], obs[u], call[u]>>]_vars

\* Get("") has returned the input error while the shard holds an entry and the
\* other caller's load is waiting on a peer.
C7_Witness ==
    /\ Done("t1") /\ arg["t1"] = ""
    /\ result["t1"] = [val |-> <<>>, err |-> "key is required"]
    /\ ShardKeys(shard) # {}
    /\ pc["t2"] = "fetch" /\ flights[arg["t2"]] # 0

\* t, whose peer fetch succeeds or has succeeded, takes a step of its load.
FetchedStep(t) ==
    /\ pc'[t] # pc[t]
    /\ \/ pc[t] = "fetch" /\ obs'[t].fetchOk
       \/ pc[t] \in {"fnret", "forget"} /\ obs[t].fetchOk

\* C8: a Get that a peer's fetch resolves returns the fetched bytes, invokes
\* no callback, and none of its steps changes the local shard.
C8_PeerValueNotCached ==
    /\ [](\A t \in Threads :
            (Done(t) /\ obs[t].fetchOk) =>
               /\ result[t] = [val |-> obs[t].fetched, err |-> Nil]
               /\ obs[t].cbs = 0
               /\ ~obs[t].added)
    /\ [][\A t \in Threads : FetchedStep(t) => shard' = shard]_vars

\* A Get returned a peer's bytes; the shard holds another key and not this one.
C8_Witness ==
    \E t \in Threads :
        /\ Done(t) /\ obs[t].fetchOk
        /\ result[t].val \in PeerValues
        /\ arg[t] \notin ShardKeys(shard)
        /\ ShardKeys(shard) # {}

\* What holds of callback errors whatever comes later: the Get returns the
\* error with no bytes and adds nothing, and the shard holds only keys that a
\* callback returned bytes for.
ErrorNotCached ==
    /\ \A t \in Threads :
         (Done(t) /\ CallbackErr(t)) =>
            /\ result[t] = [val |-> <<>>, err |-> obs[t].cbOut[1].err]
            /\ ~obs[t].added
            /\ flights[arg[t]] # call[t]
    /\ ShardKeys(shard) \subseteq okKeys

\* C9 as stated: the callback's error is returned and nothing is cached, and
\* a later Get of the key invokes the callback again.
C9_ErrorThenCallbackAgain ==
    /\ ErrorNotCached
    /\ \A t \in Threads :
         (Done(t) /\ obs[t].after = "err") => obs[t].cbs = 1

\* C9: the callback's error is returned and nothing is cached; a later Get of
\* the key invokes the callback again unless a peer sends the value, the Get
\* joins a call in flight, or the shard holds a value some callback returned
\* in the meantime.
C9_ErrorNotCached ==
    /\ ErrorNotCached
    /\ \A t \in Threads :
         (Done(t) /\ obs[t].after = "err") =>
            \/ obs[t].cbs = 1
            \/ obs[t].fetchOk
            \/ obs[t].role = "waiter"
            \/ obs[t].hit /\ arg[t] \in okKeys

\* After a failed fetch and a failed callback, the next Get of the key invoked
\* the callback again, and the shard does not hold the key.
C9_Witness ==
    \E t \in Threads :
        /\ Done(t) /\ obs[t].after = "err"
        /\ obs[t].cbs = 1 /\ obs[t].fetches = 1 /\ CallbackErr(t)
        /\ result[t].err \in GetterErrors
        /\ arg[t] \notin ShardKeys(shard)

\* The virtual nodes peer p owns: the hashes the mapping gives to it.
NodesOf(m, p) == {h \in DOMAIN m.hashMap : m.hashMap[h] = p}

\* C18: after any Adds, whatever the hash function and the arguments, each
\* registered peer owns exactly replicas virtual nodes, and keys is ascending
\* and holds exactly the hashes of hashMap, each once.
C18_VirtualNodeInvariant ==
    /\ \A p \in Range(ring.hashMap) \cup Range(ringLast.peers) :
           Cardinality(NodesOf(ring, p)) = ring.replicas
    /\ \A i \in 1..(Len(ring.keys) - 1) : ring.keys[i] <= ring.keys[i + 1]
    /\ Range(ring.keys) = DOMAIN ring.hashMap
    /\ Len(ring.keys) = Cardinality(DOMAIN ring.hashMap)

\* ------------------------------------------------- claims about the pool

\* C12: in every pool state PickPeer returns without failing: the client bound
\* to the address the ring yields, and true, exactly when that address is not
\* empty and not the pool's own, and false otherwise - before any Set as well.
C12_PickPeerNeverFails ==
    /\ \A t \in Threads : pc[t] # "panic"      \* no caller's PickPeer has failed
    /\ \A k \in GroupKeys :
         pool.peers # None =>
            LET r == PickPeer(pool, k)
                owner == MapGet(PoolRings[pool.peers[1]], k)
            IN  /\ ~r.panics
                /\ r.ok = (owner # "" /\ owner # pool.self)
                /\ r.ok => r.getter = owner \o pool.basePath

\* C13: the path the client builds for a namespace and a key is split by the
\* server into exactly that namespace and that key; so the fetch for a
\* registered namespace and a key the serving node's Get succeeds on is
\* answered 200 with that value's bytes, which the client returns.
C13_WireRoundTrip ==
    /\ wire.stage \in {"served", "done"} =>
         /\ wire.parts = <<wire.group, wire.key>>
         /\ (wire.group \in Registry /\ ServerGet(wire.key).err = Nil) =>
               /\ wire.status = 200
               /\ wire.body = ServerGet(wire.key).val
    /\ (wire.stage = "done" /\ wire.group \in Registry
                            /\ ServerGet(wire.key).err = Nil) =>
         /\ wire.err = Nil
         /\ wire.bytes = ServerGet(wire.key).val

\* ------------------------------------------------ claims about the fleet

\* C14: whatever Gets were made at whatever nodes, a key is in a node's shard
\* only if the ring names that node as the key's owner.
C14_OwnerOnlyCaching ==
    \A n \in Range(PoolPeers), k \in FleetKeys :
        k \in ShardKeys(fleet[n]) => n = MapGet(PoolRings[PoolPeers], k)

\* ------------------------------------- claims about blocking and locking

\* C15: no Get stays blocked on a peer that does not answer - the fetch ends as
\* a failure and the callback is used - and no caller waits on a call whose
\* owner is blocked on a peer.
C15_NoCallerBlockedOnPeer ==
    \A t \in Threads :
        /\ pc[t] # "hung"
        /\ pc[t] = "wait" =>
             \A u \in Threads : (call[u] = call[t] /\ obs[u].role = "owner")
                                   => pc[u] # "hung"

\* The pool between two Sets: as NewHTTPPool left it, or as one Set made it.
Settled(p) ==
    \/ p = NewHTTPPool(p.self)
    \/ \E ps \in SetLists : p = PoolSetTo(NewHTTPPool(p.self), ps)

\* C16: a PickPeer beside Set reads the ring and the clients of the pool as
\* they were before the Set or as the Set leaves them, never some of each; so
\* when it returns true its client exists and is bound to the address the ring
\* it read selects.
C16_SetAtomic ==
    pickLast.op = "PickPeer" =>
        /\ Settled(pickLast.saw)
        /\ pickLast.ok =>
             /\ pickLast.getter # Nil
             /\ pickLast.getter =
                  MapGet(PoolRings[pickLast.saw.peers[1]], pickLast.key)
                     \o pickLast.saw.basePath

\* A PickPeer returned a client from the pool a finished Set had made, and
\* the next Set has since replaced the ring and not yet the clients.
C16_Witness ==
    /\ pickLast.op = "PickPeer" /\ pickLast.ok
    /\ pickLast.saw = PoolSetTo(NewHTTPPool(SelfAddr), PoolPeers)
    /\ setPc.at = "ring" /\ poolMu = "Set"
    /\ pool.peers # pickLast.saw.peers
    /\ pool.httpGetters = pickLast.saw.httpGetters

\* A load of t that stands in a peer fetch or in the callback.
BlockedLoad(t) == pc[t] \in {"fetch", "hung", "local"}

\* C17: the shard's mutex is held for one get or one add and never across a
\* peer fetch or the callback: while a load of one key stands in its fetch or
\* its callback, a Get of another key that the shard holds can run, and it
\* returns the held value at once.
C17_BlockedLoadLeavesHits ==
    \A u \in Threads, t \in Threads, k \in GroupKeys :
        (/\ BlockedLoad(u)
         /\ pc[t] \in {"idle", "done"}
         /\ k # arg[u]
         /\ k \in ShardKeys(shard))
        => ENABLED (/\ Get(t, k)
                    /\ pc'[t] = "done"
                    /\ obs'[t].hit
                    /\ ShardHolds(shard, k, result'[t].val))

\* One caller's fetch of "Sam" never returns; the other caller has meanwhile
\* got "Tom" from the shard.
C17_Witness ==
    \E u \in Threads, t \in Threads :
        /\ pc[u] = "hung" /\ arg[u] = "Sam"
        /\ pc[t] = "done" /\ arg[t] = "Tom" /\ obs[t].hit
        /\ obs[t].after = "ok"
        /\ "Tom" \in ShardKeys(shard)

\* ------------------------------------------ claims about repeated loads

\* C20: with no peers registered and a budget without limit, of the callers
\* whose Gets of one key ran beside each other at most one has invoked the
\* callback with success: a caller that missed the shard before another
\* caller's load had stored the value does not invoke it again.
C20_OneCallbackPerKey ==
    \A t \in Threads, u \in Threads :
        (/\ ~gPeers
         /\ shard.cacheBytes = 0
         /\ t # u
         /\ arg[t] = arg[u]
         /\ CallbackOk(t))
        => ~CallbackOk(u)

====
